---------------------------- MODULE Spec2Model ----------------------------
(***************************************************************************)
(* Composite reputation-risk scoring engine and its snapshot store.        *)
(*                                                                         *)
(* Source: backend/services/risk_engine.py (the engine and                 *)
(* calculate_and_store), backend/models/models.py (the tables),            *)
(* backend/ingestion/*.py (the writers of the input tables),               *)
(* backend/api/routes.py (the read endpoints), backend/seed_demo_data.py   *)
(* (the demo writer of risk_scores).                                       *)
(*                                                                         *)
(* Conventions.  Floats are exact rationals <<num, den>> with den > 0, in  *)
(* lowest terms.  A nullable column is <<>> (NULL / None) or <<v>>.        *)
(* Stored sentiments are integers in hundredths, volatilities in tenths,   *)
(* prices in whole currency units; the score fields of a returned tuple    *)
(* and of a risk_scores row are integers in tenths (round(x, 1) * 10).     *)
(* Dates are day numbers.  A table is the sequence of its rows in          *)
(* insertion order (the position is the autoincrement id).                 *)
(***************************************************************************)
EXTENDS Integers, Sequences, FiniteSets

VARIABLES
    today,                \* date.today(): the calendar day of execution
    banks,                \* table banks: the ids of the tracked banks
    signals,              \* table signals            (models.py Signal)
    cfpb_complaints,      \* table cfpb_complaints    (models.py CfpbComplaint)
    market_data,          \* table market_data        (models.py MarketData)
    sec_filings,          \* table sec_filings        (models.py SECFiling)
    enforcement_actions,  \* table enforcement_actions (models.py EnforcementAction)
    risk_scores,          \* table risk_scores        (models.py RiskScore)
    workers,              \* the calculate_and_store calls in progress
    job,                  \* the run of the scheduled recalculation job
    last                  \* the last call made and what it returned

vars == <<today, banks, signals, cfpb_complaints, market_data, sec_filings,
          enforcement_actions, risk_scores, workers, job, last>>

inputTables == <<banks, signals, cfpb_complaints, market_data, sec_filings,
                 enforcement_actions>>

-----------------------------------------------------------------------------
(* Bounds of the model *)

NumBanks == 2
MaxDayIdx == 1
MaxRows == 2
MaxScores == 2
SentimentGrid == 100
MaxCount == 1000
MaxRaw == 150
ScoreSteps == 4

(* Program constants *)

DefaultLookback == 30

Banks == 1..NumBanks
\* the calendar days the clock visits: 40 days apart, so that a record can
\* leave the 30-day window and stay in the 90-day one
Days == {k * 40 : k \in 0..MaxDayIdx}

-----------------------------------------------------------------------------
(* Optional values *)

None == <<>>
Some(v) == <<v>>
IsNone(x) == x = <<>>
Val(x) == x[1]

-----------------------------------------------------------------------------
(* Exact rational arithmetic standing for the float arithmetic *)

Abs(n) == IF n < 0 THEN -n ELSE n

RECURSIVE GCD(_, _)
GCD(a, b) == IF b = 0 THEN a ELSE GCD(b, a % b)

Q(n, d) ==
    LET g == GCD(Abs(n), Abs(d))
        s == IF d < 0 THEN -1 ELSE 1
    IN  IF n = 0 THEN <<0, 1>> ELSE <<(s * n) \div g, (s * d) \div g>>

QInt(n) == <<n, 1>>
QAdd(a, b) == Q(a[1] * b[2] + b[1] * a[2], a[2] * b[2])
QSub(a, b) == Q(a[1] * b[2] - b[1] * a[2], a[2] * b[2])
QMul(a, b) == Q(a[1] * b[1], a[2] * b[2])
QDiv(a, b) == Q(a[1] * b[2], a[2] * b[1])
QLt(a, b) == a[1] * b[2] < b[1] * a[2]
QLe(a, b) == a[1] * b[2] <= b[1] * a[2]
QMin(a, b) == IF QLt(b, a) THEN b ELSE a
QMax(a, b) == IF QLt(a, b) THEN b ELSE a

RECURSIVE QSum(_)
QSum(s) == IF s = <<>> THEN QInt(0) ELSE QAdd(Head(s), QSum(Tail(s)))

\* func.avg(column): NULL over no rows, else the mean
QAvg(s) == IF s = <<>> THEN None ELSE Some(QDiv(QSum(s), QInt(Len(s))))

\* max(0.0, min(100.0, x))
Clamp100(x) == QMax(QInt(0), QMin(QInt(100), x))

\* round(x, 1) of a non-negative x, in tenths (ties to even)
Round1(x) ==
    LET n == 10 * (x[1] % x[2])
        f == 10 * (x[1] \div x[2]) + (n \div x[2])
        r == n % x[2]
    IN  IF 2 * r < x[2] THEN f
        ELSE IF 2 * r > x[2] THEN f + 1
        ELSE IF f % 2 = 0 THEN f ELSE f + 1

-----------------------------------------------------------------------------
(* Rows of the input tables.                                               *)
(*   signals:             [bank_id, source, published_at, sentiment_score] *)
(*   cfpb_complaints:     [bank_id, date_received, sentiment_score, copies]*)
(*                        copies rows that differ in complaint_id only     *)
(*   market_data:         [bank_id, date, close_price, volatility_30d]     *)
(*   sec_filings:         [bank_id, filed_date, sentiment_score]           *)
(*   enforcement_actions: [bank_id, action_date, severity]                 *)

Range(s) == {s[i] : i \in 1..Len(s)}

\* the database a query reads
DB == [banks |-> banks, signals |-> signals, cfpb_complaints |-> cfpb_complaints,
       market_data |-> market_data, sec_filings |-> sec_filings,
       enforcement_actions |-> enforcement_actions]

Hundredths(rows) == [i \in 1..Len(rows) |-> Q(rows[i].sentiment_score[1], 100)]

RECURSIVE CountRows(_)
CountRows(rows) ==
    IF rows = <<>> THEN 0 ELSE Head(rows).copies + CountRows(Tail(rows))

-----------------------------------------------------------------------------
(* Sub-score normalizers *)

\* a mis-set weight: peer_relative 0.20, so that the weights sum to 1.05
PROD_WEIGHTS_peer20 ==
    [media_sentiment |-> Q(25, 100), regulatory |-> Q(25, 100),
     complaints |-> Q(20, 100), market |-> Q(15, 100),
     peer_relative |-> Q(20, 100)]

PROD_WEIGHTS ==
    [media_sentiment |-> Q(25, 100), regulatory |-> Q(25, 100),
     complaints |-> Q(20, 100), market |-> Q(15, 100),
     peer_relative |-> Q(15, 100)]

\* the conversion with its sign turned: positive sentiment as high risk
sentiment_to_risk_inverted(avg_sentiment) ==
    IF IsNone(avg_sentiment) THEN QInt(50)
    ELSE Clamp100(QMul(QAdd(QInt(1), Val(avg_sentiment)), QInt(50)))

sentiment_to_risk(avg_sentiment) ==
    IF IsNone(avg_sentiment) THEN QInt(50)
    ELSE Clamp100(QMul(QSub(QInt(1), Val(avg_sentiment)), QInt(50)))

\* the volume score without its cap at 500 complaints
complaint_risk_uncapped(complaint_count, avg_narrative_sentiment) ==
    LET volume_score == QMul(Q(complaint_count, 500), QInt(100))
    IN  IF ~IsNone(avg_narrative_sentiment)
        THEN QAdd(QMul(volume_score, Q(7, 10)),
                  QMul(sentiment_to_risk(avg_narrative_sentiment), Q(3, 10)))
        ELSE volume_score

\* the volume score alone, whether or not there is a narrative sentiment
complaint_risk_volume_only(complaint_count, avg_narrative_sentiment) ==
    QMul(QMin(Q(complaint_count, 500), QInt(1)), QInt(100))

complaint_risk(complaint_count, avg_narrative_sentiment) ==
    LET volume_score == QMul(QMin(Q(complaint_count, 500), QInt(1)), QInt(100))
    IN  IF ~IsNone(avg_narrative_sentiment)
        THEN QAdd(QMul(volume_score, Q(7, 10)),
                  QMul(sentiment_to_risk(avg_narrative_sentiment), Q(3, 10)))
        ELSE volume_score

\* the rows both market queries filter: the window starts lookback_days
\* before date.today() and has no upper end
market_window(db, now, bank_id, lookback_days) ==
    SelectSeq(db.market_data,
              LAMBDA r : r.bank_id = bank_id /\ r.date >= now - lookback_days)

market_latest(rows) == CHOOSE r \in Range(rows) : \A o \in Range(rows) : o.date <= r.date
market_earliest(rows) == CHOOSE r \in Range(rows) : \A o \in Range(rows) : o.date >= r.date

\* "not earliest.close_price": None or 0
Falsy(x) == IsNone(x) \/ Val(x) = 0

\* latest.close_price - earliest.close_price with latest.close_price None:
\* TypeError
market_risk_raises(db, now, bank_id, lookback_days) ==
    LET rows == market_window(db, now, bank_id, lookback_days)
    IN  /\ rows # <<>>
        /\ ~Falsy(market_earliest(rows).close_price)
        /\ IsNone(market_latest(rows).close_price)

\* a volatility test by truthiness: 0.0 counts as unknown
market_risk_falsy_volatility(db, now, bank_id, lookback_days) ==
    LET rows == market_window(db, now, bank_id, lookback_days)
    IN  IF rows = <<>> \/ Falsy(market_earliest(rows).close_price) THEN QInt(50)
        ELSE
        LET latest == market_latest(rows)
            earliest == market_earliest(rows)
            lp == QInt(Val(latest.close_price))
            ep == QInt(Val(earliest.close_price))
            price_change_pct == QMul(QDiv(QSub(lp, ep), ep), QInt(100))
            return_risk ==
                Clamp100(QMul(QDiv(QAdd(QSub(QInt(0), price_change_pct), QInt(10)),
                                   QInt(20)), QInt(100)))
            vol_risk ==
                IF Falsy(latest.volatility_30d) THEN QInt(50)
                ELSE Clamp100(QMul(QDiv(Q(Val(latest.volatility_30d), 10), QInt(3)),
                                   QInt(100)))
        IN  QAdd(QMul(return_risk, Q(6, 10)), QMul(vol_risk, Q(4, 10)))

\* the two weights exchanged: return 40%, volatility 60%
market_risk_weights_swapped(db, now, bank_id, lookback_days) ==
    LET rows == market_window(db, now, bank_id, lookback_days)
    IN  IF rows = <<>> \/ Falsy(market_earliest(rows).close_price) THEN QInt(50)
        ELSE
        LET latest == market_latest(rows)
            earliest == market_earliest(rows)
            lp == QInt(Val(latest.close_price))
            ep == QInt(Val(earliest.close_price))
            price_change_pct == QMul(QDiv(QSub(lp, ep), ep), QInt(100))
            return_risk ==
                Clamp100(QMul(QDiv(QAdd(QSub(QInt(0), price_change_pct), QInt(10)),
                                   QInt(20)), QInt(100)))
            vol_risk ==
                IF IsNone(latest.volatility_30d) THEN QInt(50)
                ELSE Clamp100(QMul(QDiv(Q(Val(latest.volatility_30d), 10), QInt(3)),
                                   QInt(100)))
        IN  QAdd(QMul(return_risk, Q(4, 10)), QMul(vol_risk, Q(6, 10)))

market_risk(db, now, bank_id, lookback_days) ==
    LET rows == market_window(db, now, bank_id, lookback_days)
    IN  IF rows = <<>> \/ Falsy(market_earliest(rows).close_price) THEN QInt(50)
        ELSE
        LET latest == market_latest(rows)
            earliest == market_earliest(rows)
            lp == QInt(Val(latest.close_price))
            ep == QInt(Val(earliest.close_price))
            price_change_pct == QMul(QDiv(QSub(lp, ep), ep), QInt(100))
            return_risk ==
                Clamp100(QMul(QDiv(QAdd(QSub(QInt(0), price_change_pct), QInt(10)),
                                   QInt(20)), QInt(100)))
            vol_risk ==
                IF IsNone(latest.volatility_30d) THEN QInt(50)
                ELSE Clamp100(QMul(QDiv(Q(Val(latest.volatility_30d), 10), QInt(3)),
                                   QInt(100)))
        IN  QAdd(QMul(return_risk, Q(6, 10)), QMul(vol_risk, Q(4, 10)))

\* every action counted with the default severity 2, whatever its own
RECURSIVE total_weight_default_severity(_, _, _)
total_weight_default_severity(actions, now, lookback_days) ==
    IF actions = <<>> THEN QInt(0)
    ELSE LET action == Head(actions)
             days_ago == now - action.action_date
             recency_weight == QMax(Q(1, 10), QSub(QInt(1), Q(days_ago, lookback_days)))
         IN  QAdd(QMul(QInt(2), recency_weight),
                  total_weight_default_severity(Tail(actions), now, lookback_days))

RECURSIVE total_weight(_, _, _)
total_weight(actions, now, lookback_days) ==
    IF actions = <<>> THEN QInt(0)
    ELSE LET action == Head(actions)
             days_ago == now - action.action_date
             recency_weight == QMax(Q(1, 10), QSub(QInt(1), Q(days_ago, lookback_days)))
             severity == IF Falsy(action.severity) THEN 2 ELSE Val(action.severity)
         IN  QAdd(QMul(QInt(severity), recency_weight),
                  total_weight(Tail(actions), now, lookback_days))

regulatory_risk(db, now, bank_id, lookback_days) ==
    LET start_date == now - lookback_days
        filings == SelectSeq(db.sec_filings,
                             LAMBDA r : /\ r.bank_id = bank_id
                                        /\ r.filed_date >= start_date
                                        /\ ~IsNone(r.sentiment_score))
        filing_risk == sentiment_to_risk(QAvg(Hundredths(filings)))
        actions == SelectSeq(db.enforcement_actions,
                             LAMBDA r : /\ r.bank_id = bank_id
                                        /\ r.action_date >= start_date)
        enforcement_risk ==
            IF actions = <<>> THEN QInt(10)
            ELSE Clamp100(QMul(QDiv(total_weight(actions, now, lookback_days),
                                    QInt(15)), QInt(100)))
    IN  QAdd(QMul(filing_risk, Q(4, 10)), QMul(enforcement_risk, Q(6, 10)))

\* a peer comparison that always answers the neutral default
peer_relative_risk_neutral(bank_raw_score, peer_scores) == QInt(50)

\* the deviation mapped without its 0.5 offset: the peer average scores 0
peer_relative_risk_no_offset(bank_raw_score, peer_scores) ==
    IF peer_scores = <<>> THEN QInt(50)
    ELSE LET peer_avg == QDiv(QSum(peer_scores), QInt(Len(peer_scores)))
         IN  IF peer_avg = QInt(0) THEN QInt(50)
             ELSE Clamp100(QMul(QDiv(QSub(bank_raw_score, peer_avg), peer_avg),
                                QInt(100)))

\* the deviation taken the other way round: below the peers scores high
peer_relative_risk_reversed(bank_raw_score, peer_scores) ==
    IF peer_scores = <<>> THEN QInt(50)
    ELSE LET peer_avg == QDiv(QSum(peer_scores), QInt(Len(peer_scores)))
         IN  IF peer_avg = QInt(0) THEN QInt(50)
             ELSE Clamp100(QMul(QAdd(QDiv(QSub(peer_avg, bank_raw_score), peer_avg),
                                     Q(1, 2)), QInt(100)))

peer_relative_risk(bank_raw_score, peer_scores) ==
    IF peer_scores = <<>> THEN QInt(50)
    ELSE LET peer_avg == QDiv(QSum(peer_scores), QInt(Len(peer_scores)))
         IN  IF peer_avg = QInt(0) THEN QInt(50)
             ELSE Clamp100(QMul(QAdd(QDiv(QSub(bank_raw_score, peer_avg), peer_avg),
                                     Q(1, 2)), QInt(100)))

-----------------------------------------------------------------------------
(* The composite aggregator *)

RECURSIVE WeightedSentiments(_)
WeightedSentiments(rows) ==
    IF rows = <<>> THEN QInt(0)
    ELSE QAdd(Q(Head(rows).copies * Head(rows).sentiment_score[1], 100),
              WeightedSentiments(Tail(rows)))

news_in_window(db, bank_id, start_date) ==
    SelectSeq(db.signals,
              LAMBDA r : /\ r.bank_id = bank_id
                         /\ r.source = "news"
                         /\ r.published_at >= start_date)

complaints_in_window(db, bank_id, start_date) ==
    SelectSeq(db.cfpb_complaints,
              LAMBDA r : r.bank_id = bank_id /\ r.date_received >= start_date)

\* func.avg(CfpbComplaint.sentiment_score) over the rows that have one
narrative_avg(rows) ==
    LET scored == SelectSeq(rows, LAMBDA r : ~IsNone(r.sentiment_score))
    IN  IF scored = <<>> THEN None
        ELSE Some(QDiv(WeightedSentiments(scored), QInt(CountRows(scored))))

\* the peer query without its filter: every bank, the target included
other_banks_unfiltered(db, bank_id) == db.banks

\* db.query(Bank).filter(Bank.id != bank_id).all()
other_banks(db, bank_id) ==
    SelectSeq(db.banks, LAMBDA p : p # bank_id)

\* a peer proxy whose third term is the peer's regulatory sub-score
peer_raw_with_regulatory(db, peer, score_date, lookback_days) ==
    LET p_start == score_date - lookback_days
        p_media == QAvg(Hundredths(news_in_window(db, peer, p_start)))
        p_complaints == CountRows(complaints_in_window(db, peer, p_start))
    IN  QAdd(QAdd(QMul(sentiment_to_risk(p_media), Q(5, 10)),
                  QMul(complaint_risk(p_complaints, None), Q(3, 10))),
             QMul(regulatory_risk(db, score_date, peer, lookback_days * 3), Q(2, 10)))

\* p_raw of one peer
peer_raw(db, peer, score_date, lookback_days) ==
    LET p_start == score_date - lookback_days
        p_media == QAvg(Hundredths(news_in_window(db, peer, p_start)))
        p_complaints == CountRows(complaints_in_window(db, peer, p_start))
    IN  QAdd(QAdd(QMul(sentiment_to_risk(p_media), Q(5, 10)),
                  QMul(complaint_risk(p_complaints, None), Q(3, 10))),
             QMul(QInt(50), Q(2, 10)))

\* the aggregation of calculate_composite_score: the raw composite of the
\* four sub-scores, its renormalization, the peer-relative sub-score and the
\* final composite
aggregate(media_risk, regulatory_risk_val, complaint_risk_val, market_risk_val, peer_scores) ==
    LET raw_score ==
            QAdd(QAdd(QAdd(QMul(PROD_WEIGHTS.media_sentiment, media_risk),
                           QMul(PROD_WEIGHTS.regulatory, regulatory_risk_val)),
                      QMul(PROD_WEIGHTS.complaints, complaint_risk_val)),
                 QMul(PROD_WEIGHTS.market, market_risk_val))
        raw_normalized == QDiv(raw_score, QSub(QInt(1), PROD_WEIGHTS.peer_relative))
        peer_risk_val == peer_relative_risk(raw_normalized, peer_scores)
        composite ==
            QAdd(QAdd(QAdd(QAdd(QMul(PROD_WEIGHTS.media_sentiment, media_risk),
                                QMul(PROD_WEIGHTS.regulatory, regulatory_risk_val)),
                           QMul(PROD_WEIGHTS.complaints, complaint_risk_val)),
                      QMul(PROD_WEIGHTS.market, market_risk_val)),
                 QMul(PROD_WEIGHTS.peer_relative, peer_risk_val))
    IN  [raw_score |-> raw_score, raw_normalized |-> raw_normalized,
         peer_risk_val |-> peer_risk_val, composite |-> composite]

\* the local variables of calculate_composite_score at its return statement,
\* given the four sub-scores and the peer proxies
locals_of(media_risk, regulatory_risk_val, complaint_risk_val, market_risk_val, peer_scores) ==
    CHOOSE loc \in
        { [media_risk |-> media_risk, complaint_risk_val |-> complaint_risk_val,
           market_risk_val |-> market_risk_val,
           regulatory_risk_val |-> regulatory_risk_val,
           raw_score |-> agg.raw_score, raw_normalized |-> agg.raw_normalized,
           peer_scores |-> peer_scores, peer_risk_val |-> agg.peer_risk_val,
           composite |-> agg.composite] :
          agg \in {aggregate(media_risk, regulatory_risk_val, complaint_risk_val,
                             market_risk_val, peer_scores)} } : TRUE

\* calculate_composite_score up to its return statement: each local is
\* computed once, in the order of the code
composite_locals(db, now, bank_id, score_date, lookback_days) ==
    LET start_date == score_date - lookback_days
        media_avg == QAvg(Hundredths(news_in_window(db, bank_id, start_date)))
        complaints == complaints_in_window(db, bank_id, start_date)
        complaint_count == CountRows(complaints)
        narrative_sentiment == narrative_avg(complaints)
        peers == other_banks(db, bank_id)
    IN  CHOOSE loc \in
            { locals_of(media_risk, regulatory_risk_val, complaint_risk_val,
                        market_risk_val, peer_scores) :
              media_risk \in {sentiment_to_risk(media_avg)},
              complaint_risk_val \in {complaint_risk(complaint_count,
                                                     narrative_sentiment)},
              market_risk_val \in {market_risk(db, now, bank_id, lookback_days)},
              regulatory_risk_val \in {regulatory_risk(db, now, bank_id,
                                                       lookback_days * 3)},
              peer_scores \in {[i \in 1..Len(peers) |->
                                   peer_raw(db, peers[i], score_date, lookback_days)]}
            } : TRUE

NoLocals == <<>>

NoScores ==
    [composite_score |-> None, media_sentiment_score |-> None,
     complaint_score |-> None, market_score |-> None,
     regulatory_score |-> None, peer_relative_score |-> None,
     social_sentiment_score |-> None, employee_score |-> None]

\* the returned dict with the two reserved fields defaulted to 0.0
scores_of_reserved_zero(loc) ==
    [composite_score |-> Some(Round1(loc.composite)),
     media_sentiment_score |-> Some(Round1(loc.media_risk)),
     complaint_score |-> Some(Round1(loc.complaint_risk_val)),
     market_score |-> Some(Round1(loc.market_risk_val)),
     regulatory_score |-> Some(Round1(loc.regulatory_risk_val)),
     peer_relative_score |-> Some(Round1(loc.peer_risk_val)),
     social_sentiment_score |-> Some(0),
     employee_score |-> Some(0)]

\* the dict calculate_composite_score returns
scores_of(loc) ==
    [composite_score |-> Some(Round1(loc.composite)),
     media_sentiment_score |-> Some(Round1(loc.media_risk)),
     complaint_score |-> Some(Round1(loc.complaint_risk_val)),
     market_score |-> Some(Round1(loc.market_risk_val)),
     regulatory_score |-> Some(Round1(loc.regulatory_risk_val)),
     peer_relative_score |-> Some(Round1(loc.peer_risk_val)),
     social_sentiment_score |-> None,
     employee_score |-> None]

\* calculate_composite_score(db, bank_id, score_date, lookback_days): what it
\* returns, or that it raised (the TypeError of _market_risk)
calculate_composite_score(db, now, bank_id, score_date, lookback_days) ==
    IF market_risk_raises(db, now, bank_id, lookback_days)
    THEN [raised |-> TRUE, scores |-> NoScores, locals |-> NoLocals]
    ELSE LET loc == composite_locals(db, now, bank_id, score_date, lookback_days)
         IN  [raised |-> FALSE, scores |-> scores_of(loc), locals |-> loc]

-----------------------------------------------------------------------------
(* The snapshot store *)

\* RiskScore(bank_id=bank_id, score_date=score_date, **scores)
RiskScore(bank_id, score_date, scores) ==
    [bank_id |-> bank_id, score_date |-> score_date,
     composite_score |-> scores.composite_score,
     media_sentiment_score |-> scores.media_sentiment_score,
     social_sentiment_score |-> scores.social_sentiment_score,
     regulatory_score |-> scores.regulatory_score,
     complaint_score |-> scores.complaint_score,
     employee_score |-> scores.employee_score,
     market_score |-> scores.market_score,
     peer_relative_score |-> scores.peer_relative_score]

\* an upsert that clears the bank's rows of every date before inserting
add_risk_score_clearing_bank(table, bank_id, score_date, result) ==
    IF result.raised THEN table
    ELSE Append(SelectSeq(table, LAMBDA r : r.bank_id # bank_id),
                RiskScore(bank_id, score_date, result.scores))

\* a row added before the scores are computed, left in place when they fail
add_risk_score_before_computing(table, bank_id, score_date, result) ==
    Append(table, RiskScore(bank_id, score_date, result.scores))

\* an upsert keyed by the date alone: it replaces the rows of that date
add_risk_score_replacing_date(table, bank_id, score_date, result) ==
    IF result.raised THEN table
    ELSE Append(SelectSeq(table, LAMBDA r : r.score_date # score_date),
                RiskScore(bank_id, score_date, result.scores))

\* db.add(risk_score); db.commit(): the table after the insert
add_risk_score(table, bank_id, score_date, result) ==
    IF result.raised THEN table
    ELSE Append(table, RiskScore(bank_id, score_date, result.scores))

\* calculate_and_store(db, bank_id, score_date): the risk_scores table after
\* the call
calculate_and_store(db, now, table, bank_id, score_date) ==
    add_risk_score(table, bank_id, score_date,
                   calculate_composite_score(db, now, bank_id, score_date,
                                             DefaultLookback))

\* GET /banks/{bank_id}/risk-history?days=: the rows it lists, in date order
RECURSIVE SortByDate(_)
SortByDate(rows) ==
    IF rows = <<>> THEN <<>>
    ELSE LET m == CHOOSE i \in 1..Len(rows) :
                    \A j \in 1..Len(rows) :
                        \/ rows[i].score_date < rows[j].score_date
                        \/ (rows[i].score_date = rows[j].score_date /\ i <= j)
             rest == [k \in 1..(Len(rows) - 1) |-> IF k < m THEN rows[k] ELSE rows[k + 1]]
         IN  <<rows[m]>> \o SortByDate(rest)

history_entry(s) ==
    [date |-> s.score_date, composite_score |-> s.composite_score,
     media_sentiment_score |-> s.media_sentiment_score,
     complaint_score |-> s.complaint_score, market_score |-> s.market_score]

get_risk_history(table, now, bank_id, days) ==
    LET since == now - days
        rows == SortByDate(SelectSeq(table,
                    LAMBDA s : s.bank_id = bank_id /\ s.score_date >= since))
    IN  [i \in 1..Len(rows) |-> history_entry(rows[i])]

-----------------------------------------------------------------------------
(* The callers of the engine and the writers of the tables *)

TotalRows ==
    Len(signals) + Len(cfpb_complaints) + Len(market_data) + Len(sec_filings)
    + Len(enforcement_actions)

\* the days up to date.today()
PastDays == {d \in Days : d <= today}

\* last: the call made last, its arguments, what it returned (or that it
\* raised), the day it ran, the number of input rows it ran over and the
\* size of risk_scores when it returned
NoCall ==
    [op |-> "none", bank_id |-> 0, score_date |-> 0, lookback_days |-> 0,
     raised |-> FALSE, scores |-> NoScores, locals |-> NoLocals,
     history |-> <<>>, now |-> 0, rows |-> 0, stored |-> 0]

Call(op, bank_id, score_date, lookback_days, result, table) ==
    [op |-> op, bank_id |-> bank_id, score_date |-> score_date,
     lookback_days |-> lookback_days,
     raised |-> result.raised, scores |-> result.scores,
     locals |-> result.locals, history |-> <<>>,
     now |-> today, rows |-> TotalRows, stored |-> Len(table)]

\* the rows of banks when every bank is tracked (seed_banks)
AllBanks == [i \in 1..NumBanks |-> i]

\* a calculate_and_store call in progress: where it stands, its score_date
\* and, once computed, the scores dict it holds
NoResult == [raised |-> FALSE, scores |-> NoScores, locals |-> NoLocals]
IdleWorker == [pc |-> "idle", score_date |-> 0, result |-> NoResult]
NoWorkers == [b \in Banks |-> IdleWorker]

\* a run of _recalculate_scores: where it stands, the banks it queried, how
\* many of them it has stored, the size of risk_scores when it started,
\* whether it logged a failure, and the database each of its computations
\* read
IdleJob ==
    [pc |-> "idle", banks |-> <<>>, done |-> 0, start |-> 0, failed |-> FALSE,
     views |-> <<>>]

\* date.today() moves on
AdvanceDay ==
    /\ today + 40 \in Days
    /\ today' = today + 40
    /\ UNCHANGED <<inputTables, risk_scores, workers, job, last>>

\* calculate_composite_score(db, bank_id, score_date, lookback_days)
CalculateCompositeScore ==
    \E b \in Range(banks), d \in PastDays, lb \in {DefaultLookback, 60} :
        /\ last' = Call("calculate_composite_score", b, d, lb,
                        calculate_composite_score(DB, today, b, d, lb), risk_scores)
        /\ UNCHANGED <<today, inputTables, risk_scores, workers, job>>

\* a risk-score endpoint that persists what it computed
GetRiskScore_storing ==
    \E b \in Range(banks) :
        /\ Len(risk_scores) < MaxScores
        /\ risk_scores' = calculate_and_store(DB, today, risk_scores, b, today)
        /\ last' = Call("get_risk_score", b, today, DefaultLookback,
                        calculate_composite_score(DB, today, b, today, DefaultLookback),
                        risk_scores')
        /\ UNCHANGED <<today, inputTables, workers, job>>

\* GET /banks/{bank_id}/risk-score
GetRiskScore ==
    \E b \in Range(banks) :
        /\ last' = Call("get_risk_score", b, today, DefaultLookback,
                        calculate_composite_score(DB, today, b, today, DefaultLookback),
                        risk_scores)
        /\ UNCHANGED <<today, inputTables, risk_scores, workers, job>>

\* GET /banks/{bank_id}/risk-history
GetRiskHistory ==
    \E b \in Range(banks), days \in {30, 365} :
        /\ last' = [NoCall EXCEPT !.op = "get_risk_history", !.bank_id = b,
                                  !.now = today, !.rows = TotalRows,
                                  !.stored = Len(risk_scores),
                                  !.history = get_risk_history(risk_scores, today, b, days)]
        /\ UNCHANGED <<today, inputTables, risk_scores, workers, job>>

\* results.sort(key=composite_score, reverse=True): stable, descending.
\* One row put in its place in a sorted list: behind the rows whose
\* composite is not lower
RECURSIVE InsertByComposite(_, _)
InsertByComposite(row, sorted) ==
    IF sorted = <<>> THEN <<row>>
    ELSE IF Val(Head(sorted).scores.composite_score)
              >= Val(row.scores.composite_score)
         THEN <<Head(sorted)>> \o InsertByComposite(row, Tail(sorted))
         ELSE <<row>> \o sorted

RECURSIVE SortByCompositeDesc(_)
SortByCompositeDesc(rows) ==
    IF rows = <<>> THEN <<>>
    ELSE InsertByComposite(rows[Len(rows)],
                           SortByCompositeDesc(SubSeq(rows, 1, Len(rows) - 1)))

\* the loop of dashboard_overview over the banks
RECURSIVE dashboard_results(_, _, _)
dashboard_results(db, now, bs) ==
    IF bs = <<>> THEN <<>>
    ELSE LET result == calculate_composite_score(db, now, Head(bs), now,
                                                 DefaultLookback)
         IN  <<[bank_id |-> Head(bs), raised |-> result.raised,
                scores |-> result.scores]>>
             \o dashboard_results(db, now, Tail(bs))

\* dashboard_overview(db), given the results of its loop: the scores of
\* every bank for today, highest composite first; it raises when a
\* computation raised
dashboard_overview(results) ==
    IF \E i \in 1..Len(results) : results[i].raised
    THEN [raised |-> TRUE, rows |-> <<>>]
    ELSE [raised |-> FALSE, rows |-> SortByCompositeDesc(results)]

\* GET /dashboard/overview
DashboardOverview ==
    /\ \E results \in {dashboard_results(DB, today, banks)} :
       \E answer \in {dashboard_overview(results)} :
           last' = [NoCall EXCEPT !.op = "dashboard_overview", !.now = today,
                                 !.rows = TotalRows, !.stored = Len(risk_scores),
                                 !.raised = answer.raised,
                                 !.history = answer.rows]
    /\ UNCHANGED <<today, inputTables, risk_scores, workers, job>>

\* calculate_and_store(db, bank_id, score_date), for today or a past day
CalculateAndStore ==
    \E b \in Range(banks), d \in PastDays :
        /\ Len(risk_scores) < MaxScores
        /\ risk_scores' = calculate_and_store(DB, today, risk_scores, b, d)
        /\ last' = Call("calculate_and_store", b, d, DefaultLookback,
                        calculate_composite_score(DB, today, b, d, DefaultLookback),
                        risk_scores')
        /\ UNCHANGED <<today, inputTables, workers, job>>

-----------------------------------------------------------------------------
(* Spec: the running system over an initially empty database.  The clock   *)
(* moves, the ingestion functions store what the upstream services deliver *)
(* (values drawn from small sets, one new row or one batch of complaints   *)
(* per call, at most MaxRows rows in all), calculate_and_store and the     *)
(* demo seeder write risk_scores (at most MaxScores rows).                 *)

NewsSentiments == {-100}
ComplaintBatches == {100}
ClosePrices == {90, 100}
Volatilities == {Some(30)}
FilingSentiments == {Some(-100)}
Severities == {5}
SeedValues == {300, 350}

Init ==
    /\ today = 0
    /\ banks = AllBanks
    /\ workers = NoWorkers
    /\ job = IdleJob
    /\ signals = <<>>
    /\ cfpb_complaints = <<>>
    /\ market_data = <<>>
    /\ sec_filings = <<>>
    /\ enforcement_actions = <<>>
    /\ risk_scores = <<>>
    /\ last = NoCall

\* ingest_news: Signal(bank_id, source=NEWS, published_at, sentiment_score)
IngestNews ==
    \E b \in Range(banks), d \in PastDays, s \in NewsSentiments :
        /\ TotalRows < MaxRows
        /\ signals' = Append(signals,
                [bank_id |-> b, source |-> "news", published_at |-> d,
                 sentiment_score |-> Some(s)])
        /\ UNCHANGED <<today, banks, workers, job, cfpb_complaints, market_data, sec_filings,
                       enforcement_actions, risk_scores, last>>

\* ingest_complaints: CfpbComplaint rows, none with a sentiment_score
IngestComplaints ==
    \E b \in Range(banks), d \in PastDays, n \in ComplaintBatches :
        /\ TotalRows < MaxRows
        /\ cfpb_complaints' = Append(cfpb_complaints,
                [bank_id |-> b, date_received |-> d, sentiment_score |-> None,
                 copies |-> n])
        /\ UNCHANGED <<today, banks, workers, job, signals, market_data, sec_filings,
                       enforcement_actions, risk_scores, last>>

\* ingest_market_data: one row per (bank, trade date), skipped when present
IngestMarketData ==
    \E b \in Range(banks), d \in PastDays, p \in ClosePrices, v \in Volatilities :
        /\ TotalRows < MaxRows
        /\ ~\E r \in Range(market_data) : r.bank_id = b /\ r.date = d
        /\ market_data' = Append(market_data,
                [bank_id |-> b, date |-> d, close_price |-> Some(p),
                 volatility_30d |-> v])
        /\ UNCHANGED <<today, banks, workers, job, signals, cfpb_complaints, sec_filings,
                       enforcement_actions, risk_scores, last>>

\* ingest_sec_filings(days_back=30): filings older than the cutoff are skipped
IngestSecFilings ==
    \E b \in Range(banks), d \in PastDays, s \in FilingSentiments :
        /\ TotalRows < MaxRows
        /\ d >= today - 30
        /\ sec_filings' = Append(sec_filings,
                [bank_id |-> b, filed_date |-> d, sentiment_score |-> s])
        /\ UNCHANGED <<today, banks, workers, job, signals, cfpb_complaints, market_data,
                       enforcement_actions, risk_scores, last>>

\* ingest_enforcement_actions: severity from _determine_severity
IngestEnforcementActions ==
    \E b \in Range(banks), d \in PastDays, sev \in Severities :
        /\ TotalRows < MaxRows
        /\ enforcement_actions' = Append(enforcement_actions,
                [bank_id |-> b, action_date |-> d, severity |-> Some(sev)])
        /\ UNCHANGED <<today, banks, workers, job, signals, cfpb_complaints, market_data,
                       sec_filings, risk_scores, last>>

\* seed_risk_scores(db, banks, days=0): one row per bank for today, its
\* composite a random walk and its three sub-scores noise around it
seed_risk_scores(table, now, composite, sub) ==
    table \o [i \in 1..NumBanks |->
                [bank_id |-> i, score_date |-> now,
                 composite_score |-> Some(composite[i]),
                 media_sentiment_score |-> Some(sub[i]),
                 social_sentiment_score |-> None,
                 regulatory_score |-> None,
                 complaint_score |-> Some(sub[i]),
                 employee_score |-> None,
                 market_score |-> Some(sub[i]),
                 peer_relative_score |-> None]]

SeedRiskScores ==
    \E composite \in [Banks -> SeedValues], sub \in [Banks -> {300}] :
        /\ Len(risk_scores) + NumBanks <= MaxScores
        /\ risk_scores' = seed_risk_scores(risk_scores, today, composite, sub)
        /\ last' = [NoCall EXCEPT !.op = "seed_risk_scores", !.now = today,
                                  !.rows = TotalRows,
                                  !.stored = Len(risk_scores')]
        /\ UNCHANGED <<today, inputTables, workers, job>>

Next ==
    \/ AdvanceDay
    \/ IngestNews
    \/ IngestComplaints
    \/ IngestMarketData
    \/ IngestSecFilings
    \/ IngestEnforcementActions
    \/ CalculateAndStore
    \/ SeedRiskScores

Spec == Init /\ [][Next]_vars

-----------------------------------------------------------------------------
(* SpecSnapshots: the life of the risk_scores table from the empty         *)
(* database: its two writers, the endpoint that reads it and the clock.    *)

NextSnapshots ==
    \/ AdvanceDay
    \/ GetRiskHistory
    \/ CalculateAndStore
    \/ SeedRiskScores

SpecSnapshots == Init /\ [][NextSnapshots]_vars

-----------------------------------------------------------------------------
(* SpecEngine: the engine as a function of the database.  The initial      *)
(* state draws each input table from a menu of contents (bank 1 is the     *)
(* bank under study, bank 2 its peer with data; day 40 is the reference    *)
(* day: 20 is inside its 30-day window, 0 inside the 90-day one only, -60  *)
(* outside both, 60 after it); the actions call the engine.                *)

SignalRow(b, d, s) ==
    [bank_id |-> b, source |-> "news", published_at |-> d, sentiment_score |-> Some(s)]
ComplaintRow(b, d, s, n) ==
    [bank_id |-> b, date_received |-> d, sentiment_score |-> s, copies |-> n]
MarketRow(b, d, p, v) ==
    [bank_id |-> b, date |-> d, close_price |-> p, volatility_30d |-> v]
FilingRow(b, d, s) ==
    [bank_id |-> b, filed_date |-> d, sentiment_score |-> s]
ActionRow(b, d, sev) ==
    [bank_id |-> b, action_date |-> d, severity |-> sev]

SignalMenu ==
    { <<>>,
      <<SignalRow(1, 40, -100)>>,
      <<SignalRow(1, 40, 100), SignalRow(1, 20, 0), SignalRow(2, 40, -100)>>,
      <<SignalRow(1, 0, -50), SignalRow(2, 20, 100), SignalRow(2, 0, 33)>>,
      <<SignalRow(1, 40, -100), SignalRow(2, 40, -60)>> }

ComplaintMenu ==
    { <<>>,
      <<ComplaintRow(1, 40, None, 1)>>,
      <<ComplaintRow(1, 20, Some(-100), 600), ComplaintRow(2, 40, None, 250)>>,
      <<ComplaintRow(1, 40, Some(50), 100), ComplaintRow(1, 0, None, 50),
        ComplaintRow(2, 0, None, 500)>> }

MarketMenu ==
    { <<>>,
      <<MarketRow(1, 40, Some(100), None)>>,
      <<MarketRow(1, 20, Some(100), Some(10)), MarketRow(1, 40, Some(90), Some(30))>>,
      <<MarketRow(1, 20, Some(100), None), MarketRow(1, 40, Some(110), Some(0))>>,
      <<MarketRow(1, 0, Some(100), Some(20)), MarketRow(1, 40, Some(97), Some(10))>>,
      <<MarketRow(1, 20, Some(0), None), MarketRow(1, 40, Some(100), Some(45))>>,
      <<MarketRow(1, 20, Some(100), None), MarketRow(1, 40, None, None)>>,
      <<MarketRow(1, 20, Some(-50), None), MarketRow(1, 40, Some(100), Some(-10))>>,
      <<MarketRow(1, 20, Some(100), Some(10)), MarketRow(1, 40, Some(100), Some(0))>> }

FilingMenu ==
    { <<>>,
      <<FilingRow(1, 40, None)>>,
      <<FilingRow(1, 40, Some(-100)), FilingRow(1, 0, Some(50))>> }

ActionMenu ==
    { <<>>,
      <<ActionRow(1, 40, Some(5))>>,
      <<ActionRow(1, 0, None), ActionRow(1, 20, Some(3))>>,
      <<ActionRow(1, 40, Some(5)), ActionRow(1, 40, Some(5)),
        ActionRow(1, 40, Some(5)), ActionRow(1, 20, Some(4))>>,
      <<ActionRow(1, 60, Some(5)), ActionRow(1, -60, Some(1))>>,
      <<ActionRow(1, 40, Some(2)), ActionRow(1, 20, Some(3))>> }

InitEngine ==
    /\ today \in Days
    /\ banks \in {[i \in 1..n |-> i] : n \in 1..NumBanks}
    /\ workers = NoWorkers
    /\ job = IdleJob
    /\ signals \in SignalMenu
    /\ cfpb_complaints \in ComplaintMenu
    /\ market_data \in MarketMenu
    /\ sec_filings \in FilingMenu
    /\ enforcement_actions \in ActionMenu
    /\ risk_scores = <<>>
    /\ last = NoCall

\* the database does not change here, so a behaviour makes one call
NextEngine ==
    /\ last = NoCall
    /\ \/ CalculateCompositeScore
       \/ GetRiskScore

SpecEngine == InitEngine /\ [][NextEngine]_vars

-----------------------------------------------------------------------------
(* SpecStore: calculate_and_store and the read endpoints over a fixed      *)
(* database: empty, or one where the computation for bank 1 raises, or one *)
(* with data for both banks.                                               *)

InitStore ==
    /\ today = 40
    /\ banks = AllBanks
    /\ workers = NoWorkers
    /\ job = IdleJob
    /\ signals \in {<<>>, <<SignalRow(1, 40, 100), SignalRow(2, 40, -100)>>}
    /\ cfpb_complaints = <<>>
    /\ market_data \in
         { <<>>,
           <<MarketRow(1, 20, Some(100), None), MarketRow(1, 40, None, None),
             MarketRow(2, 40, Some(100), Some(15))>> }
    /\ sec_filings = <<>>
    /\ enforcement_actions \in {<<>>, <<ActionRow(2, 20, Some(4))>>}
    /\ risk_scores = <<>>
    /\ last = NoCall

NextStore ==
    \/ CalculateAndStore
    \/ GetRiskHistory
    \/ GetRiskScore
    \/ DashboardOverview
    \/ CalculateCompositeScore

SpecStore == InitStore /\ [][NextStore]_vars

-----------------------------------------------------------------------------
(* SpecNormalizers: the sub-score normalizers and the aggregation as       *)
(* functions, applied to arguments drawn from grids: sentiments            *)
(* k / SentimentGrid in [-1, 1] and None, complaint counts up to MaxCount, *)
(* raw composites up to MaxRaw, sub-scores in steps of 100 / ScoreSteps.   *)

SentimentInputs ==
    {Some(Q(k, SentimentGrid)) : k \in (-SentimentGrid)..SentimentGrid} \cup {None}

\* _sentiment_to_risk(avg_sentiment)
SentimentToRisk ==
    \E s \in SentimentInputs :
        /\ last' = [NoCall EXCEPT !.op = "sentiment_to_risk",
                                  !.locals = [avg_sentiment |-> s,
                                              risk |-> sentiment_to_risk(s)]]
        /\ UNCHANGED <<today, inputTables, risk_scores, workers, job>>

\* func.count(CfpbComplaint.id) ... .scalar() or 0: a count, never negative
CountInputs == 0..MaxCount

\* the narrative sentiments: None, or a mean in [-1, 1] (quarters)
NarrativeInputs == {Some(Q(k, 4)) : k \in (-4)..4} \cup {None}

\* _complaint_risk(complaint_count, avg_narrative_sentiment)
ComplaintRisk ==
    \E n \in CountInputs, s \in NarrativeInputs :
        /\ last' = [NoCall EXCEPT !.op = "complaint_risk",
                                  !.locals = [complaint_count |-> n,
                                              avg_narrative_sentiment |-> s,
                                              risk |-> complaint_risk(n, s)]]
        /\ UNCHANGED <<today, inputTables, risk_scores, workers, job>>

\* raw composites and peer proxies: scores, never negative
RawInputs == {QInt(k) : k \in 0..MaxRaw}
PeerScoreInputs == {QInt(0), QInt(10), QInt(35), QInt(100)}
PeerListInputs ==
    {<<>>} \cup {<<p>> : p \in PeerScoreInputs}
           \cup {<<p, q>> : p \in PeerScoreInputs, q \in PeerScoreInputs}

\* _peer_relative_risk(bank_raw_score, peer_scores)
PeerRelativeRisk ==
    \E raw \in RawInputs, peers \in PeerListInputs :
        /\ last' = [NoCall EXCEPT !.op = "peer_relative_risk",
                                  !.locals = [bank_raw_score |-> raw,
                                              peer_scores |-> peers,
                                              risk |-> peer_relative_risk(raw, peers)]]
        /\ UNCHANGED <<today, inputTables, risk_scores, workers, job>>

\* sub-scores: values of [0, 100] on a grid
SubScoreInputs == {Q(100 * k, ScoreSteps) : k \in 0..ScoreSteps}

\* the aggregation of calculate_composite_score applied to four sub-scores
\* and a list of peer proxies
Aggregate ==
    \E media \in SubScoreInputs, regulatory \in SubScoreInputs,
       complaint \in SubScoreInputs, market \in SubScoreInputs,
       peers \in PeerListInputs :
        /\ \E agg \in {aggregate(media, regulatory, complaint, market, peers)} :
             last' = [NoCall EXCEPT !.op = "aggregate",
                         !.locals = [media_risk |-> media,
                                     regulatory_risk_val |-> regulatory,
                                     complaint_risk_val |-> complaint,
                                     market_risk_val |-> market,
                                     peer_scores |-> peers,
                                     peer_risk_val |-> agg.peer_risk_val,
                                     composite |-> agg.composite]]
        /\ UNCHANGED <<today, inputTables, risk_scores, workers, job>>

\* the functions keep no state, so a behaviour makes one call
NextNormalizers ==
    /\ last = NoCall
    /\ \/ SentimentToRisk
       \/ ComplaintRisk
       \/ PeerRelativeRisk
       \/ Aggregate

SpecNormalizers == Init /\ [][NextNormalizers]_vars

-----------------------------------------------------------------------------
(* SpecConcurrent: one calculate_and_store(db, bank, today) call per bank,  *)
(* each on a session of its own, interleaved over a database that nothing  *)
(* else writes.  A call first computes its scores (the queries of          *)
(* calculate_composite_score; they read the input tables only), then adds  *)
(* and commits its row.                                                    *)

InitConcurrent ==
    /\ today = 40
    /\ banks = AllBanks
    /\ workers = NoWorkers
    /\ job = IdleJob
    /\ signals \in SignalMenu
    /\ cfpb_complaints \in ComplaintMenu
    /\ market_data \in
         { <<>>,
           <<MarketRow(1, 20, Some(100), None), MarketRow(1, 40, None, None),
             MarketRow(2, 40, Some(100), Some(15))>> }
    /\ sec_filings = <<>>
    /\ enforcement_actions = <<>>
    /\ risk_scores = <<>>
    /\ last = NoCall

\* scores = calculate_composite_score(db, bank_id, score_date)
BeginStore(b) ==
    /\ workers[b].pc = "idle"
    /\ LET result == calculate_composite_score(DB, today, b, today, DefaultLookback)
       IN  workers' = [workers EXCEPT ![b] =
                          [pc |-> IF result.raised THEN "raised" ELSE "computed",
                           score_date |-> today, result |-> result]]
    /\ UNCHANGED <<today, inputTables, risk_scores, last, job>>

\* db.add(risk_score); db.commit()
CommitStore(b) ==
    /\ workers[b].pc = "computed"
    /\ risk_scores' = add_risk_score(risk_scores, b, workers[b].score_date,
                                     workers[b].result)
    /\ workers' = [workers EXCEPT ![b].pc = "done"]
    /\ UNCHANGED <<today, inputTables, last, job>>

NextConcurrent ==
    \E b \in Range(banks) :
        \/ BeginStore(b)
        \/ CommitStore(b)

SpecConcurrent == InitConcurrent /\ [][NextConcurrent]_vars

-----------------------------------------------------------------------------
(* SpecJob: one run of the scheduled recalculation job, on its own session *)
(* and its own thread of the background scheduler, while the CFPB and news *)
(* ingestion job (every six hours) commits rows on another.  The job       *)
(* queries the banks, then calls calculate_and_store for one bank after    *)
(* another; each call commits.                                             *)

InitJob ==
    /\ today = 40
    /\ banks = AllBanks
    /\ workers = NoWorkers
    /\ job = IdleJob
    /\ signals = <<>>
    /\ cfpb_complaints = <<>>
    /\ market_data \in
         { <<>>,
           <<MarketRow(1, 20, Some(100), None), MarketRow(1, 40, None, None)>>,
           <<MarketRow(2, 20, Some(100), None), MarketRow(2, 40, None, None)>> }
    /\ sec_filings = <<>>
    /\ enforcement_actions = <<>>
    /\ risk_scores = <<>>
    /\ last = NoCall

\* db = SessionLocal(); banks = db.query(Bank).all()
StartRecalculate ==
    /\ job.pc = "idle"
    /\ job' = [IdleJob EXCEPT !.pc = IF banks = <<>> THEN "returned" ELSE "running",
                              !.banks = banks, !.start = Len(risk_scores)]
    /\ UNCHANGED <<today, inputTables, risk_scores, workers, last>>

\* a job whose loop catches the failure of one bank and goes on to the next
RecalculateStep_continuing ==
    /\ job.pc = "running"
    /\ \E b \in {job.banks[job.done + 1]} :
       \E result \in {calculate_composite_score(DB, today, b, today, DefaultLookback)} :
           /\ risk_scores' = add_risk_score(risk_scores, b, today, result)
           /\ job' = [job EXCEPT
                        !.views = Append(@, DB),
                        !.failed = @ \/ result.raised,
                        !.done = @ + 1,
                        !.pc = IF job.done + 1 = Len(job.banks)
                               THEN "returned" ELSE "running"]
    /\ UNCHANGED <<today, inputTables, workers, last>>

\* one pass of the loop: calculate_and_store(db, bank.id, date.today()); a
\* failure ends the loop in the except clause, the last bank ends the job
RecalculateStep ==
    /\ job.pc = "running"
    /\ \E b \in {job.banks[job.done + 1]} :
       \E result \in {calculate_composite_score(DB, today, b, today, DefaultLookback)} :
           /\ risk_scores' = add_risk_score(risk_scores, b, today, result)
           /\ job' = IF result.raised
                     THEN [job EXCEPT !.views = Append(@, DB),
                                      !.failed = TRUE, !.pc = "returned"]
                     ELSE [job EXCEPT
                             !.views = Append(@, DB),
                             !.done = @ + 1,
                             !.pc = IF job.done + 1 = Len(job.banks)
                                    THEN "returned" ELSE "running"]
    /\ UNCHANGED <<today, inputTables, workers, last>>

NextJob ==
    \/ StartRecalculate
    \/ RecalculateStep
    \/ IngestNews
    \/ IngestComplaints

SpecJob == InitJob /\ [][NextJob]_vars

-----------------------------------------------------------------------------
(* Properties *)

\* the score fields of a returned tuple that carry numbers
NumericFields ==
    {"composite_score", "media_sentiment_score", "complaint_score",
     "market_score", "regulatory_score", "peer_relative_score"}

\* a risk_scores row that calculate_and_store wrote: it carries all five
\* sub-scores (the seeder leaves regulatory and peer-relative NULL)
EngineRow(r) == ~IsNone(r.regulatory_score)

SameKey(r, bank_id, score_date) == r.bank_id = bank_id /\ r.score_date = score_date

StoredOk == last.op = "calculate_and_store" /\ ~last.raised

\* C1: after any sequence of calculate_and_store calls the store holds at
\* most one RiskScore row per (bank_id, score_date).
C1_OneSnapshotPerKey ==
    \A i, j \in 1..Len(risk_scores) :
        ( /\ EngineRow(risk_scores[i])
          /\ EngineRow(risk_scores[j])
          /\ SameKey(risk_scores[i], risk_scores[j].bank_id, risk_scores[j].score_date) )
        => i = j

\* C2: a second calculate_and_store for the same (bank, date), on the same
\* day over the same input rows, stores the values the first stored and
\* leaves risk_scores as the first call left it.
C2_Idempotent ==
    [][ ( /\ StoredOk
          /\ last' # last
          /\ last'.op = "calculate_and_store"
          /\ last'.bank_id = last.bank_id
          /\ last'.score_date = last.score_date
          /\ last'.now = last.now
          /\ last'.rows = last.rows )
        => ( /\ last'.scores = last.scores
             /\ risk_scores' = risk_scores ) ]_vars

\* C3: once calculate_and_store has run for a key, every row of that key that
\* the risk-history query lists carries the values that call computed: no
\* row with the values of an earlier run stays readable.
C3_ReplacesPriorValues ==
    StoredOk =>
        \A days \in {30, 365} :
            \A e \in Range(get_risk_history(SelectSeq(risk_scores, EngineRow),
                                            today, last.bank_id, days)) :
                e.date = last.score_date
                => e = history_entry(RiskScore(last.bank_id, last.score_date,
                                               last.scores))

OtherKeys(table, bank_id, score_date) ==
    SelectSeq(table, LAMBDA r : ~SameKey(r, bank_id, score_date))

\* C4: a calculate_and_store call for (bank, date) leaves every stored row of
\* another key as it was: none is changed, removed or reordered.
C4_OtherKeysUntouched ==
    [][ (last' # last /\ last'.op = "calculate_and_store")
        => OtherKeys(risk_scores', last'.bank_id, last'.score_date)
           = OtherKeys(risk_scores, last'.bank_id, last'.score_date) ]_vars

\* a call has stored a row while a row of another key was in the store
C4_Witness ==
    /\ StoredOk
    /\ \E r \in Range(risk_scores) : SameKey(r, last.bank_id, last.score_date)
    /\ \E r \in Range(risk_scores) : ~SameKey(r, last.bank_id, last.score_date)

CompleteRow(r) ==
    \A f \in NumericFields : ~IsNone(r[f])

\* C5: a calculate_and_store call whose computation raises writes nothing;
\* one whose computation returns appends exactly the row of that one
\* returned tuple, so every stored row is complete.
C5_FailedComputationWritesNothing ==
    [][ (last' # last /\ last'.op = "calculate_and_store")
        => /\ IF market_risk_raises(DB, today, last'.bank_id, DefaultLookback)
              THEN last'.raised /\ risk_scores' = risk_scores
              ELSE /\ ~last'.raised
                   /\ risk_scores' =
                        Append(risk_scores,
                               RiskScore(last'.bank_id, last'.score_date, last'.scores))
           /\ \A r \in Range(risk_scores') : CompleteRow(r) ]_vars

\* a call has raised while the store held rows of completed computations
C5_Witness ==
    /\ last.op = "calculate_and_store"
    /\ last.raised
    /\ risk_scores # <<>>

Computed ==
    last.op \in {"calculate_composite_score", "get_risk_score"} /\ ~last.raised

\* C6: every numeric field of a tuple calculate_composite_score returns lies
\* in [0, 100] (0..1000 tenths), whichever input categories are absent.
C6_ScoresInRange ==
    Computed =>
        \A f \in NumericFields :
            /\ ~IsNone(last.scores[f])
            /\ Val(last.scores[f]) \in 0..1000

\* a tuple at both ends of the range, computed with a category absent
C6_Witness ==
    /\ Computed
    /\ last.scores.complaint_score = Some(1000)
    /\ last.scores.market_score = Some(0)
    /\ sec_filings = <<>>

\* the claim's peer-relative formula
ClaimedPeerRelative(raw, peers) ==
    IF peers = <<>> THEN QInt(50)
    ELSE LET avg == QDiv(QSum(peers), QInt(Len(peers)))
         IN  IF avg[1] = 0 THEN QInt(50)
             ELSE Clamp100(QMul(QAdd(QDiv(QSub(raw, avg), avg), Q(1, 2)), QInt(100)))

\* C7: raw = 0.25*media + 0.25*regulatory + 0.20*complaint + 0.15*market,
\* raw_normalized = raw / 0.85, the peer-relative sub-score is derived from
\* raw_normalized and the peer proxies, the composite is the sum of the five
\* sub-scores weighted 0.25, 0.25, 0.20, 0.15, 0.15, and the weights sum to 1.
C7_TwoPhaseComposite ==
    Computed =>
        LET L == last.locals
            raw == QAdd(QAdd(QAdd(QMul(Q(25, 100), L.media_risk),
                                  QMul(Q(25, 100), L.regulatory_risk_val)),
                             QMul(Q(20, 100), L.complaint_risk_val)),
                        QMul(Q(15, 100), L.market_risk_val))
        IN  /\ L.raw_score = raw
            /\ L.raw_normalized = QDiv(raw, Q(85, 100))
            /\ L.peer_risk_val = ClaimedPeerRelative(L.raw_normalized, L.peer_scores)
            /\ L.composite = QAdd(raw, QMul(Q(15, 100), L.peer_risk_val))
            /\ last.scores.composite_score = Some(Round1(L.composite))
            /\ QSum(<<PROD_WEIGHTS.media_sentiment, PROD_WEIGHTS.regulatory,
                      PROD_WEIGHTS.complaints, PROD_WEIGHTS.market,
                      PROD_WEIGHTS.peer_relative>>) = QInt(1)

\* a computation whose peer-relative sub-score is strictly inside (0, 100),
\* so that phase 2 shows in the composite
C7_Witness ==
    /\ Computed
    /\ last.locals.peer_scores # <<>>
    /\ QLt(QInt(0), last.locals.peer_risk_val)
    /\ QLt(last.locals.peer_risk_val, QInt(100))
    /\ last.locals.peer_risk_val # QInt(50)

\* C8: the composite of a stored row is a function of the sub-scores stored
\* with it: two rows with equal sub-scores have equal composites.
C8_CompositeFunctionOfSubScores ==
    \A r1, r2 \in Range(risk_scores) :
        ( /\ r1.media_sentiment_score = r2.media_sentiment_score
          /\ r1.regulatory_score = r2.regulatory_score
          /\ r1.complaint_score = r2.complaint_score
          /\ r1.market_score = r2.market_score
          /\ r1.peer_relative_score = r2.peer_relative_score
          /\ r1.social_sentiment_score = r2.social_sentiment_score
          /\ r1.employee_score = r2.employee_score )
        => r1.composite_score = r2.composite_score

\* the database restricted to the records dated up to a day
DbUpTo(db, d) ==
    [banks |-> db.banks,
     signals |-> SelectSeq(db.signals, LAMBDA r : r.published_at <= d),
     cfpb_complaints |-> SelectSeq(db.cfpb_complaints, LAMBDA r : r.date_received <= d),
     market_data |-> SelectSeq(db.market_data, LAMBDA r : r.date <= d),
     sec_filings |-> SelectSeq(db.sec_filings, LAMBDA r : r.filed_date <= d),
     enforcement_actions |-> SelectSeq(db.enforcement_actions,
                                       LAMBDA r : r.action_date <= d)]

\* C9: calculate_and_store with an explicit score_date stores the scores of
\* the windows that end at score_date: what the engine computes on that day
\* from the records dated up to it.
C9_BackfillWindow ==
    (StoredOk /\ last.rows = TotalRows)
    => last.scores =
         calculate_composite_score(DbUpTo(DB, last.score_date), last.score_date,
                                   last.bank_id, last.score_date,
                                   last.lookback_days).scores

\* C10: two calls with the same bank, score_date and lookback_days over the
\* same input rows return the same tuple, whatever day each runs on.
C10_SameInputsSameOutput ==
    [][ ( /\ StoredOk
          /\ last' # last
          /\ last'.op = "calculate_and_store"
          /\ ~last'.raised
          /\ last'.bank_id = last.bank_id
          /\ last'.score_date = last.score_date
          /\ last'.lookback_days = last.lookback_days
          /\ last'.rows = last.rows )
        => last'.scores = last.scores ]_vars

\* C11: calculate_composite_score is total: whatever rows or field values
\* are absent, a call returns (it does not raise) and the returned tuple
\* carries all six numeric fields.
C11_Total ==
    last.op \in {"calculate_composite_score", "get_risk_score"}
    => /\ ~last.raised
       /\ \A f \in NumericFields : ~IsNone(last.scores[f])

\* the close prices of the rows _market_risk reads for the last call
WindowPrices ==
    {r.close_price :
        r \in Range(market_window(DB, last.now, last.bank_id, last.lookback_days))}

\* C12: a close price outside its domain (zero or negative) in the window is
\* treated as missing data: the market sub-score is the neutral 50.0.
C12_MalformedPriceIsMissing ==
    (Computed /\ \E p \in WindowPrices : ~IsNone(p) /\ Val(p) <= 0)
    => last.scores.market_score = Some(500)

\* the database without the rows of one bank in the tables the peer proxy
\* reads
DbWithout(db, bank_id) ==
    [db EXCEPT !.signals = SelectSeq(db.signals, LAMBDA r : r.bank_id # bank_id),
               !.cfpb_complaints =
                    SelectSeq(db.cfpb_complaints, LAMBDA r : r.bank_id # bank_id)]

\* C13: the peer proxies of a call are those of exactly the tracked banks
\* whose id differs from the target's, in table order, and none of them
\* depends on the target's own rows.
C13_PeerSetExcludesTarget ==
    Computed =>
        LET peers == SelectSeq(banks, LAMBDA p : p # last.bank_id)
        IN  /\ Len(last.locals.peer_scores) = Len(peers)
            /\ \A i \in 1..Len(peers) :
                 last.locals.peer_scores[i]
                   = peer_raw(DbWithout(DB, last.bank_id), peers[i],
                              last.score_date, last.lookback_days)

\* a call for a target whose own proxy differs from its peer's, so that
\* including the target would change peer_avg
C13_Witness ==
    /\ Computed
    /\ Len(last.locals.peer_scores) = 1
    /\ peer_raw(DB, last.bank_id, last.score_date, last.lookback_days)
         # last.locals.peer_scores[1]
    /\ last.locals.peer_risk_val # QInt(50)

\* C14: social_sentiment_score and employee_score are NULL in every tuple
\* calculate_composite_score returns, in every row the dashboard lists and
\* in every row calculate_and_store has written.
C14_ReservedScoresAbsent ==
    /\ ( /\ last.op \in {"calculate_composite_score", "get_risk_score",
                         "calculate_and_store"}
         /\ ~last.raised )
       => /\ IsNone(last.scores.social_sentiment_score)
          /\ IsNone(last.scores.employee_score)
    /\ last.op = "dashboard_overview"
       => \A e \in Range(last.history) :
            /\ IsNone(e.scores.social_sentiment_score)
            /\ IsNone(e.scores.employee_score)
    /\ \A r \in Range(risk_scores) :
         /\ IsNone(r.social_sentiment_score)
         /\ IsNone(r.employee_score)

\* a call has stored a row whose numeric fields are all set
C14_Witness ==
    /\ StoredOk
    /\ \E r \in Range(risk_scores) :
         /\ SameKey(r, last.bank_id, last.score_date)
         /\ CompleteRow(r)
         /\ r.media_sentiment_score # Some(500)

\* a bank without a row in any input table: its first tracked day
NoDataFor(b) ==
    /\ \A r \in Range(signals) : r.bank_id # b
    /\ \A r \in Range(cfpb_complaints) : r.bank_id # b
    /\ \A r \in Range(market_data) : r.bank_id # b
    /\ \A r \in Range(sec_filings) : r.bank_id # b
    /\ \A r \in Range(enforcement_actions) : r.bank_id # b

\* C15 as stated: a bank with no data of any kind scores media 50,
\* complaint 0, market 50, regulatory 26, peer-relative 50 and composite
\* 34.0, whatever other banks are tracked.
C15_FirstDayComposite34 ==
    (Computed /\ NoDataFor(last.bank_id))
    => /\ last.scores.media_sentiment_score = Some(500)
       /\ last.scores.complaint_score = Some(0)
       /\ last.scores.market_score = Some(500)
       /\ last.scores.regulatory_score = Some(260)
       /\ last.scores.peer_relative_score = Some(500)
       /\ last.scores.composite_score = Some(340)

\* C15 amended: a bank with no data of any kind scores media 50, complaint
\* 0, market 50 and regulatory 26; the peer-relative sub-score compares
\* 26.5 / 0.85 with the proxies of the other tracked banks and the composite
\* is 26.5 + 0.15 * peer-relative: 50 and 34.0 when no other bank is tracked,
\* 39.1 and 32.4 when the other banks have no data either (proxy 35 each).
C15_FirstDayScores ==
    (Computed /\ NoDataFor(last.bank_id))
    => LET peers == SelectSeq(banks, LAMBDA p : p # last.bank_id)
           proxies == [i \in 1..Len(peers) |->
                          peer_raw(DB, peers[i], last.score_date, last.lookback_days)]
           peer == ClaimedPeerRelative(Q(530, 17), proxies)
       IN  /\ last.scores.media_sentiment_score = Some(500)
           /\ last.scores.complaint_score = Some(0)
           /\ last.scores.market_score = Some(500)
           /\ last.scores.regulatory_score = Some(260)
           /\ last.scores.peer_relative_score = Some(Round1(peer))
           /\ last.scores.composite_score
                = Some(Round1(QAdd(Q(265, 10), QMul(Q(15, 100), peer))))
           /\ peers = <<>>
              => /\ last.scores.peer_relative_score = Some(500)
                 /\ last.scores.composite_score = Some(340)
           /\ (peers # <<>> /\ \A i \in 1..Len(peers) : NoDataFor(peers[i]))
              => /\ last.scores.peer_relative_score = Some(391)
                 /\ last.scores.composite_score = Some(324)

\* a first-day call with another tracked bank that has no data either
C15_Witness ==
    /\ Computed
    /\ NoDataFor(last.bank_id)
    /\ Len(banks) > 1
    /\ \A i \in 1..Len(banks) : NoDataFor(banks[i])
    /\ last.scores.composite_score = Some(324)

\* the scenario of C16 for the last call: mean news sentiment -1.0, no
\* complaints in the window, a flat market with latest volatility 0, no
\* filings, no enforcement actions, one peer whose proxy is 50
FlatMarketScenario ==
    LET b == last.bank_id
        start == last.score_date - last.lookback_days
        prices == market_window(DB, last.now, b, last.lookback_days)
        peers == SelectSeq(banks, LAMBDA p : p # b)
    IN  /\ Computed
        /\ QAvg(Hundredths(news_in_window(DB, b, start))) = Some(QInt(-1))
        /\ CountRows(complaints_in_window(DB, b, start)) = 0
        /\ prices # <<>>
        /\ ~Falsy(market_earliest(prices).close_price)
        /\ market_latest(prices).close_price = market_earliest(prices).close_price
        /\ market_latest(prices).volatility_30d = Some(0)
        /\ \A r \in Range(sec_filings) : r.bank_id # b
        /\ \A r \in Range(enforcement_actions) : r.bank_id # b
        /\ Len(peers) = 1
        /\ peer_raw(DB, peers[1], last.score_date, last.lookback_days) = QInt(50)

\* C16 as stated: in that scenario media is 100, complaint 0, market 50 and
\* regulatory 26.
C16_FlatMarketIs50 ==
    FlatMarketScenario
    => /\ last.scores.media_sentiment_score = Some(1000)
       /\ last.scores.complaint_score = Some(0)
       /\ last.scores.market_score = Some(500)
       /\ last.scores.regulatory_score = Some(260)

\* C16 amended: in that scenario media is 100, complaint 0, regulatory 26
\* and market 30 (return risk 50, volatility risk 0); raw is 36, the
\* peer-relative sub-score compares 36 / 0.85 with the peer average 50 and
\* is 34.7, and the composite is 41.2.
C16_FlatMarketIs30 ==
    FlatMarketScenario
    => /\ last.scores.media_sentiment_score = Some(1000)
       /\ last.scores.complaint_score = Some(0)
       /\ last.scores.market_score = Some(300)
       /\ last.scores.regulatory_score = Some(260)
       /\ last.scores.peer_relative_score
            = Some(Round1(ClaimedPeerRelative(QDiv(QInt(36), Q(85, 100)),
                                              <<QInt(50)>>)))
       /\ last.scores.peer_relative_score = Some(347)
       /\ last.scores.composite_score = Some(412)

\* the scenario, computed for the day of the call
C16_Witness ==
    /\ FlatMarketScenario
    /\ last.score_date = last.now
    /\ last.lookback_days = DefaultLookback

\* C17: no call changes an input table; a call of calculate_composite_score,
\* made directly or by the risk-score, dashboard or history endpoint, leaves
\* risk_scores as it was too; calculate_and_store adds at most one row to
\* risk_scores and changes nothing else.
C17_ComputationHasNoSideEffect ==
    [][ (last' # last)
        => /\ inputTables' = inputTables
           /\ last'.op # "calculate_and_store" => risk_scores' = risk_scores
           /\ last'.op = "calculate_and_store"
              => \/ risk_scores' = risk_scores
                 \/ /\ Len(risk_scores') = Len(risk_scores) + 1
                    /\ SubSeq(risk_scores', 1, Len(risk_scores)) = risk_scores ]_vars

\* the risk-score endpoint has answered over stored signals and snapshots
C17_Witness ==
    /\ last.op = "get_risk_score"
    /\ ~last.raised
    /\ signals # <<>>
    /\ risk_scores # <<>>

\* the orders in which the banks can be taken one after another
BankOrders ==
    {o \in [1..Len(banks) -> Range(banks)] :
        \A i, j \in 1..Len(banks) : o[i] = o[j] => i = j}

\* risk_scores after calculate_and_store has run for the banks of an order,
\* one call after another
RECURSIVE StoredInOrder(_, _)
StoredInOrder(order, table) ==
    IF order = <<>> THEN table
    ELSE StoredInOrder(Tail(order),
                       calculate_and_store(DB, today, table, Head(order), today))

AllCallsEnded ==
    \A b \in Range(banks) : workers[b].pc \in {"done", "raised"}

\* C18: interleaved calculate_and_store calls for different banks over an
\* unchanging database end with the rows that the calls store when run one
\* after another (in one order exactly, in every order as a set), and at
\* every moment the row of each call that has committed is in risk_scores,
\* once.
C18_ParallelEqualsSequential ==
    /\ AllCallsEnded
       => /\ \E o \in BankOrders : risk_scores = StoredInOrder(o, <<>>)
          /\ \A o \in BankOrders :
               /\ Range(risk_scores) = Range(StoredInOrder(o, <<>>))
               /\ Len(risk_scores) = Len(StoredInOrder(o, <<>>))
    /\ \A b \in Range(banks) :
         workers[b].pc = "done"
         => Cardinality({i \in 1..Len(risk_scores) :
                risk_scores[i] = RiskScore(b, workers[b].score_date,
                                           workers[b].result.scores)}) = 1

\* two calls overlap: one has committed while another holds scores it
\* computed and has not yet stored
C18_Witness ==
    \E b, c \in Range(banks) :
        /\ workers[b].pc = "computed"
        /\ workers[c].pc = "done"
        /\ risk_scores # <<>>

KeyStored(table, bank_id, score_date) ==
    \E r \in Range(table) : SameKey(r, bank_id, score_date)

\* C19: every (bank, date) key starts absent; a calculate_and_store call
\* that returns leaves its key computed, the first time and every later
\* time; no step of the system makes a computed key absent again.
C19_KeyLifecycle ==
    /\ risk_scores = <<>>
    /\ [][ /\ \A r \in Range(risk_scores) :
                KeyStored(risk_scores', r.bank_id, r.score_date)
           /\ (last' # last /\ last'.op = "calculate_and_store" /\ ~last'.raised)
              => KeyStored(risk_scores', last'.bank_id, last'.score_date) ]_vars

\* a key was computed, and a later call for it has returned
C19_Witness ==
    /\ StoredOk
    /\ Cardinality({i \in 1..Len(risk_scores) :
            SameKey(risk_scores[i], last.bank_id, last.score_date)}) = 2

\* C20: _sentiment_to_risk(s) is clamp((1 - s) * 50, 0, 100): for s in
\* [-1, 1] it lies in [0, 100] and does not increase with s, it is 0 at 1,
\* 100 at -1 and 50 at 0; for None it is 50.
C20_SentimentToRisk ==
    last.op = "sentiment_to_risk"
    => LET s == last.locals.avg_sentiment
           r == last.locals.risk
       IN  /\ IsNone(s) => r = QInt(50)
           /\ ~IsNone(s)
              => /\ r = QMax(QInt(0),
                             QMin(QInt(100), QMul(QSub(QInt(1), Val(s)), QInt(50))))
                 /\ QLe(QInt(0), r) /\ QLe(r, QInt(100))
                 /\ \A t \in SentimentInputs \ {None} :
                      QLe(Val(s), Val(t)) => QLe(sentiment_to_risk(t), r)
                 /\ Val(s) = QInt(1) => r = QInt(0)
                 /\ Val(s) = QInt(-1) => r = QInt(100)
                 /\ Val(s) = QInt(0) => r = QInt(50)

\* the conversion applied to the most negative sentiment
C20_Witness ==
    /\ last.op = "sentiment_to_risk"
    /\ last.locals.avg_sentiment = Some(QInt(-1))
    /\ last.locals.risk = QInt(100)

\* C21: the volume component of _complaint_risk is clamp(count / 500, 0, 1)
\* * 100: 0 at count 0, 100 at count 500 and 100 for every count above 500;
\* with a narrative sentiment the result is volume * 0.7 +
\* sentiment_to_risk(sentiment) * 0.3, without one it is the volume alone.
C21_ComplaintRisk ==
    last.op = "complaint_risk"
    => LET n == last.locals.complaint_count
           s == last.locals.avg_narrative_sentiment
           r == last.locals.risk
           volume == QMul(QMax(QInt(0), QMin(QInt(1), Q(n, 500))), QInt(100))
       IN  /\ n = 0 => volume = QInt(0)
           /\ n >= 500 => volume = QInt(100)
           /\ IsNone(s) => r = volume
           /\ ~IsNone(s)
              => r = QAdd(QMul(volume, Q(7, 10)),
                          QMul(QMax(QInt(0),
                                    QMin(QInt(100),
                                         QMul(QSub(QInt(1), Val(s)), QInt(50)))),
                               Q(3, 10)))

\* a count above the cap blended with a narrative sentiment: 70 + 0.3 * 75
C21_Witness ==
    /\ last.op = "complaint_risk"
    /\ last.locals.complaint_count = 1000
    /\ last.locals.avg_narrative_sentiment = Some(Q(-1, 2))
    /\ last.locals.risk = Q(925, 10)

\* the market rows of the last call's window, and its two ends
LastMarketRows == market_window(DB, last.now, last.bank_id, last.lookback_days)

\* the market sub-score as the claim states it, from the earliest and latest
\* close price and the latest volatility (in tenths, or None)
ClaimedMarketRisk(earliest, latest, volatility) ==
    LET return_pct == QMul(QDiv(QSub(QInt(latest), QInt(earliest)), QInt(earliest)),
                           QInt(100))
        return_risk ==
            QMax(QInt(0),
                 QMin(QInt(100),
                      QMul(QDiv(QSub(QInt(10), return_pct), QInt(20)), QInt(100))))
        vol_risk ==
            IF IsNone(volatility) THEN QInt(50)
            ELSE QMax(QInt(0),
                      QMin(QInt(100),
                           QMul(QDiv(Q(Val(volatility), 10), QInt(3)), QInt(100))))
    IN  QAdd(QMul(Q(6, 10), return_risk), QMul(Q(4, 10), vol_risk))

\* C22: market_risk = 0.6 * return_risk + 0.4 * vol_risk, with return_risk =
\* clamp((10 - return_pct) / 20 * 100, 0, 100) for return_pct = (latest -
\* earliest) / earliest * 100 and vol_risk = clamp(volatility / 3 * 100, 0,
\* 100) or 50 when the latest volatility is unknown; earliest 100, latest
\* 110, volatility 0 gives 0; earliest 100, latest 90, volatility 3 gives
\* 100; an empty price window gives 50.
C22_MarketRisk ==
    Computed =>
        LET rows == LastMarketRows
            m == last.locals.market_risk_val
        IN  /\ rows = <<>> => m = QInt(50)
            /\ ( /\ rows # <<>>
                 /\ ~Falsy(market_earliest(rows).close_price)
                 /\ ~IsNone(market_latest(rows).close_price) )
               => LET e == Val(market_earliest(rows).close_price)
                      l == Val(market_latest(rows).close_price)
                      v == market_latest(rows).volatility_30d
                  IN  /\ m = ClaimedMarketRisk(e, l, v)
                      /\ (e = 100 /\ l = 110 /\ v = Some(0)) => m = QInt(0)
                      /\ (e = 100 /\ l = 90 /\ v = Some(30)) => m = QInt(100)

\* the falling market with volatility 3: both components at 100
C22_Witness ==
    /\ Computed
    /\ LastMarketRows # <<>>
    /\ market_earliest(LastMarketRows).close_price = Some(100)
    /\ market_latest(LastMarketRows).close_price = Some(90)
    /\ market_latest(LastMarketRows).volatility_30d = Some(30)
    /\ last.scores.market_score = Some(1000)

\* the filings and the enforcement events of the last call's regulatory
\* window: lookback_days * 3 days back from the day of the call
LastFilings ==
    SelectSeq(sec_filings,
              LAMBDA r : /\ r.bank_id = last.bank_id
                         /\ r.filed_date >= last.now - 3 * last.lookback_days
                         /\ ~IsNone(r.sentiment_score))

LastEvents ==
    SelectSeq(enforcement_actions,
              LAMBDA r : /\ r.bank_id = last.bank_id
                         /\ r.action_date >= last.now - 3 * last.lookback_days)

\* the enforcement component as the claim states it
ClaimedEnforcement(events, now, lookback_days) ==
    IF events = <<>> THEN QInt(10)
    ELSE LET weighted ==
                 [i \in 1..Len(events) |->
                    QMul(QInt(Val(events[i].severity)),
                         QMax(Q(1, 10),
                              QSub(QInt(1),
                                   Q(now - events[i].action_date, lookback_days))))]
         IN  QMax(QInt(0),
                  QMin(QInt(100), QMul(QDiv(QSum(weighted), QInt(15)), QInt(100))))

\* C23: regulatory_risk = 0.4 * sentiment_to_risk(mean filing sentiment) +
\* 0.6 * enforcement_component; the enforcement component is exactly 10 when
\* the window holds no enforcement event, and otherwise clamp(sum over the
\* events of severity * recency_weight / 15 * 100, 0, 100) with each event's
\* own severity (1 to 5).
C23_RegulatoryRisk ==
    (Computed /\ \A e \in Range(LastEvents) :
                    ~IsNone(e.severity) /\ Val(e.severity) \in 1..5)
    => LET filing == sentiment_to_risk(QAvg(Hundredths(LastFilings)))
           enforcement == ClaimedEnforcement(LastEvents, last.now,
                                             3 * last.lookback_days)
       IN  /\ LastEvents = <<>> => enforcement = QInt(10)
           /\ last.locals.regulatory_risk_val
                = QAdd(QMul(Q(4, 10), filing), QMul(Q(6, 10), enforcement))

\* two events of different severity and age, their sum below the cap, with
\* filings in the window
C23_Witness ==
    /\ Computed
    /\ Len(LastEvents) = 2
    /\ LastEvents[1].severity # LastEvents[2].severity
    /\ LastEvents[1].action_date # LastEvents[2].action_date
    /\ \A e \in Range(LastEvents) : ~IsNone(e.severity)
    /\ LastFilings # <<>>
    /\ QLt(ClaimedEnforcement(LastEvents, last.now, 3 * last.lookback_days),
           QInt(100))

\* what one event adds to total_weight in the last call
EventWeight(e) == total_weight(<<e>>, last.now, 3 * last.lookback_days)

\* C24: for every enforcement event the regulatory window query returns, the
\* recency weight used is max(0.1, 1 - days_since_event / lookback_days) and
\* lies in [0.1, 1]: the event counts at least a tenth of its severity and
\* never more than its severity, also when it is dated on or after the day
\* of the computation.
C24_RecencyWeightInRange ==
    Computed =>
        \A e \in Range(LastEvents) :
            (~IsNone(e.severity) /\ Val(e.severity) \in 1..5)
            => LET sev == QInt(Val(e.severity))
                   w == QDiv(EventWeight(e), sev)
               IN  /\ w = QMax(Q(1, 10),
                               QSub(QInt(1), Q(last.now - e.action_date,
                                               3 * last.lookback_days)))
                   /\ QLe(Q(1, 10), w)
                   /\ QLe(w, QInt(1))
                   /\ QLe(EventWeight(e), sev)

\* C25: _peer_relative_risk(raw, peers) is 50 when peers is empty or when
\* the mean of peers is 0, and otherwise clamp(((raw - avg) / avg + 0.5) *
\* 100, 0, 100): raw equal to the peer average gives 50, raw at least 50%
\* above the average gives 100 (raw 150 against peers 100, 100), raw at
\* least 50% below it gives 0.
C25_PeerRelativeRisk ==
    last.op = "peer_relative_risk"
    => LET raw == last.locals.bank_raw_score
           peers == last.locals.peer_scores
           r == last.locals.risk
       IN  /\ peers = <<>> => r = QInt(50)
           /\ peers # <<>>
              => LET avg == QDiv(QSum(peers), QInt(Len(peers)))
                 IN  /\ avg = QInt(0) => r = QInt(50)
                     /\ avg # QInt(0)
                        => /\ r = QMax(QInt(0),
                                       QMin(QInt(100),
                                            QMul(QAdd(QDiv(QSub(raw, avg), avg),
                                                      Q(1, 2)), QInt(100))))
                           /\ raw = avg => r = QInt(50)
                           /\ QLe(QMul(Q(3, 2), avg), raw) => r = QInt(100)
                           /\ QLe(raw, QMul(Q(1, 2), avg)) => r = QInt(0)
           /\ (raw = QInt(150) /\ peers = <<QInt(100), QInt(100)>>) => r = QInt(100)

\* a raw score between the two saturation points of a two-peer average
C25_Witness ==
    /\ last.op = "peer_relative_risk"
    /\ last.locals.bank_raw_score = QInt(60)
    /\ last.locals.peer_scores = <<QInt(10), QInt(100)>>
    /\ last.locals.risk = Q(6500, 110)

\* the database with only the tables of news signals and complaints filled
DbNewsAndComplaints(db) ==
    [db EXCEPT !.market_data = <<>>, !.sec_filings = <<>>,
               !.enforcement_actions = <<>>]

\* the proxy of one peer as the claim states it, over the target's window
ClaimedPeerProxy(peer, score_date, lookback_days) ==
    LET start == score_date - lookback_days
        news == SelectSeq(signals,
                          LAMBDA r : /\ r.bank_id = peer
                                     /\ r.source = "news"
                                     /\ r.published_at >= start)
        count == CountRows(SelectSeq(cfpb_complaints,
                          LAMBDA r : r.bank_id = peer /\ r.date_received >= start))
    IN  QAdd(QAdd(QMul(Q(1, 2), sentiment_to_risk(QAvg(Hundredths(news)))),
                  QMul(Q(3, 10), complaint_risk(count, None))),
             QMul(Q(2, 10), QInt(50)))

\* C26: the proxy of each other tracked bank is 0.5 * sentiment_to_risk(mean
\* news sentiment) + 0.3 * complaint_risk(complaint count, no narrative
\* sentiment) + 0.2 * 50 over the target's window; it reads no market,
\* regulatory or peer-relative value of the peer: it is the same over the
\* database with those tables emptied.
C26_PeerProxy ==
    Computed =>
        LET peers == SelectSeq(banks, LAMBDA p : p # last.bank_id)
        IN  /\ Len(last.locals.peer_scores) = Len(peers)
            /\ \A i \in 1..Len(peers) :
                 /\ last.locals.peer_scores[i]
                      = ClaimedPeerProxy(peers[i], last.score_date, last.lookback_days)
                 /\ last.locals.peer_scores[i]
                      = peer_raw(DbNewsAndComplaints(DB), peers[i],
                                 last.score_date, last.lookback_days)

\* a call whose peer has news, complaints, market rows and enforcement
\* events of its own
C26_Witness ==
    /\ Computed
    /\ Len(last.locals.peer_scores) = 1
    /\ last.locals.peer_scores[1] # QInt(35)
    /\ LET peer == CHOOSE p \in Range(banks) : p # last.bank_id
           start == last.score_date - last.lookback_days
       IN  /\ news_in_window(DB, peer, start) # <<>>
           /\ complaints_in_window(DB, peer, start) # <<>>
           /\ \E r \in Range(market_data) : r.bank_id = peer
           /\ \E r \in Range(enforcement_actions) : r.bank_id = peer

\* the aggregation of the last call with one sub-score replaced
Raised(field, v) ==
    LET L == [last.locals EXCEPT ![field] = v]
    IN  aggregate(L.media_risk, L.regulatory_risk_val, L.complaint_risk_val,
                  L.market_risk_val, L.peer_scores)

FourSubScores ==
    {"media_risk", "regulatory_risk_val", "complaint_risk_val", "market_risk_val"}

\* C27: for a fixed non-empty peer set, raising one of the four sub-scores
\* (media, regulatory, complaint, market), the others fixed, never lowers
\* the peer-relative sub-score nor the composite, exact or rounded.
C27_Monotone ==
    (last.op = "aggregate" /\ last.locals.peer_scores # <<>>)
    => \A f \in FourSubScores : \A v \in SubScoreInputs :
         QLe(last.locals[f], v)
         => /\ QLe(last.locals.peer_risk_val, Raised(f, v).peer_risk_val)
            /\ QLe(last.locals.composite, Raised(f, v).composite)
            /\ Round1(last.locals.composite) <= Round1(Raised(f, v).composite)

\* an aggregation whose peer-relative sub-score is inside (0, 100) and rises
\* with the market sub-score
C27_Witness ==
    /\ last.op = "aggregate"
    /\ Len(last.locals.peer_scores) = 2
    /\ QLt(QInt(0), last.locals.peer_risk_val)
    /\ QLt(last.locals.peer_risk_val, QInt(100))
    /\ last.locals.market_risk_val = QInt(50)
    /\ QLt(last.locals.peer_risk_val, Raised("market_risk_val", QInt(100)).peer_risk_val)
    /\ QLt(last.locals.composite, Raised("market_risk_val", QInt(100)).composite)

\* the rows the run of the job has added to risk_scores
JobRows == SubSeq(risk_scores, job.start + 1, Len(risk_scores))

\* the places in the job's bank list of the banks whose computation raises
FailingPlaces ==
    {k \in 1..Len(job.banks) :
        market_risk_raises(DB, today, job.banks[k], DefaultLookback)}

\* C28: the recalculation job scores the banks in list order and stops at
\* the first failure: it returns (the failure is logged, not raised to the
\* scheduler), the snapshots committed for the earlier banks stay stored and
\* none is written for the failing bank or a later one; a run without a
\* failure leaves a snapshot dated today for every bank.
C28_JobStopsAtFirstFailure ==
    /\ job.pc \in {"idle", "running", "returned"}
    /\ job.pc # "idle"
       => /\ Len(JobRows) = job.done
          /\ \A i \in 1..Len(JobRows) :
               /\ JobRows[i].bank_id = job.banks[i]
               /\ JobRows[i].score_date = today
               /\ CompleteRow(JobRows[i])
    /\ job.pc = "returned"
       => IF FailingPlaces = {}
          THEN ~job.failed /\ job.done = Len(job.banks)
          ELSE /\ job.failed
               /\ \A k \in FailingPlaces : job.done < k
               /\ job.done + 1 \in FailingPlaces

\* the run has failed at the second bank, the first bank's snapshot stored
C28_Witness ==
    /\ job.pc = "returned"
    /\ job.failed
    /\ job.done = 1
    /\ Len(risk_scores) = 1
    /\ risk_scores[1].bank_id = job.banks[1]

\* C29: within one run of the recalculation job every computation reads the
\* same data: no commit of an ingestion job takes effect between the
\* computations of two banks of the run.
C29_ConsistentView ==
    \A i, j \in 1..Len(job.views) : job.views[i] = job.views[j]

=============================================================================
